---------------------------- MODULE Spec2Model ----------------------------
(***************************************************************************)
(* A model of lightrag/kg/networkx_impl.py: the NetworkX-backed graph      *)
(* storage (NetworkXStorage), its cross-process reload / persist protocol, *)
(* the canonicalisation _stabilize_graph and the query                     *)
(* get_knowledge_graph.                                                    *)
(*                                                                         *)
(* Strings are sequences of code points, so that Python's string order     *)
(* and string formatting are computed, not assumed.  A networkx graph is   *)
(* a record of its insertion-ordered dictionaries:                         *)
(*   directed  is_directed()                                               *)
(*   node      the node ids in insertion order (the keys of G._node)       *)
(*   nattr     node id -> attribute dict                                   *)
(*   adj       node id -> the neighbours in insertion order (the keys of   *)
(*             G._adj[n]; the successors G._succ[n] of a DiGraph)          *)
(*   eattr     edge -> attribute dict; an undirected edge is keyed by its  *)
(*             ordered pair (smaller id first), a directed one by <<u,v>>  *)
(***************************************************************************)
EXTENDS Naturals, Integers, Sequences, FiniteSets, TLC

-----------------------------------------------------------------------------
(* Strings *)

\* Python str < str: lexicographic order on code points.
StrLt(s, t) ==
    \E i \in 1..Len(t) :
        /\ i <= Len(s) + 1
        /\ \A j \in 1..(i - 1) : s[j] = t[j]
        /\ (i = Len(s) + 1 \/ s[i] < t[i])

StrGt(s, t) == StrLt(t, s)

\* `sub in s` for strings: sub occurs as a contiguous substring of s.
StrContains(s, sub) ==
    \E i \in 0..(Len(s) - Len(sub)) :
        \A j \in 1..Len(sub) : s[i + j] = sub[j]

\* The text " -> " of the f-string at line 70.
ArrowText == <<32, 45, 62, 32>>

\* The text "-" of the f-string at line 309.
DashText == <<45>>

\* Node ids used by the bounded inputs: "a", "b", "c", "a -> b", "b -> c".
id_a == <<97>>
id_b == <<98>>
id_c == <<99>>
id_a_arrow_b == id_a \o ArrowText \o id_b
id_b_arrow_c == id_b \o ArrowText \o id_c

\* Node ids with the "-" of the edge id of line 309: "a-b", "b-c".
id_a_dash_b == id_a \o DashText \o id_b
id_b_dash_c == id_b \o DashText \o id_c

-----------------------------------------------------------------------------
(* Sequences and dicts *)

SeqToSet(s) == {s[i] : i \in 1..Len(s)}

InSeq(x, s) == \E i \in 1..Len(s) : s[i] = x

\* The position of x in s (x occurs once).
IndexOf(x, s) == CHOOSE i \in 1..Len(s) : s[i] = x

\* s without the entries equal to x, order kept (del d[x] of an ordered dict).
Without(s, x) ==
    LET keep(y) == y # x IN SelectSeq(s, keep)

\* d[k] = v on an insertion-ordered dict's key list: a new key goes last, an
\* existing key keeps its place.
AppendIfMissing(s, x) == IF InSeq(x, s) THEN s ELSE Append(s, x)

EmptyDict == [k \in {} |-> ""]

\* dict.update(new): the keys of new overwrite.
DictUpdate(old, new) ==
    [k \in (DOMAIN old) \cup (DOMAIN new) |->
        IF k \in DOMAIN new THEN new[k] ELSE old[k]]

\* f with the key k set to v (k may be new).
FnPut(f, k, v) == [x \in (DOMAIN f) \cup {k} |-> IF x = k THEN v ELSE f[x]]

\* f without the keys in ks.
FnDrop(f, ks) == [x \in (DOMAIN f) \ ks |-> f[x]]

\* sorted(items, key=...) on the list of the items' keys (strings): Python's
\* sort is stable, so the place of item i is fixed by the keys alone: after
\* every item with a smaller key and after the earlier items with an equal
\* key.  The result lists the positions of the items in sorted order.
sorted_by_key(keys) ==
    LET n == Len(keys)
        place(i) ==
            1 + Cardinality({j \in 1..n : StrLt(keys[j], keys[i])})
              + Cardinality({j \in 1..(i - 1) : keys[j] = keys[i]})
        places == [i \in 1..n |-> place(i)]
    IN  [p \in 1..n |-> CHOOSE i \in 1..n : places[i] = p]

-----------------------------------------------------------------------------
(* networkx Graph / DiGraph *)

\* nx.Graph() and nx.DiGraph().
nx_Graph == [directed |-> FALSE, node |-> <<>>, nattr |-> <<>>,
             adj |-> <<>>, eattr |-> <<>>]

nx_DiGraph == [directed |-> TRUE, node |-> <<>>, nattr |-> <<>>,
               adj |-> <<>>, eattr |-> <<>>]

\* The key of the edge u-v in eattr.
EdgeKey(G, u, v) ==
    IF G.directed \/ ~StrGt(u, v) THEN <<u, v>> ELSE <<v, u>>

nx_has_node(G, n) == n \in DOMAIN G.adj

nx_has_edge(G, u, v) == u \in DOMAIN G.adj /\ InSeq(v, G.adj[u])

nx_number_of_nodes(G) == Len(G.node)

\* G.add_node(n, **attr).
nx_add_node(G, n, attr) ==
    IF nx_has_node(G, n)
    THEN [G EXCEPT !.nattr = FnPut(@, n, DictUpdate(G.nattr[n], attr))]
    ELSE [G EXCEPT !.node = Append(@, n),
                   !.nattr = FnPut(@, n, attr),
                   !.adj = FnPut(@, n, <<>>)]

\* G.add_edge(u, v, **attr): missing endpoints are created with no
\* attributes; an existing edge keeps its place and has its dict updated.
nx_add_edge(G, u, v, attr) ==
    LET G1 == IF nx_has_node(G, u) THEN G ELSE nx_add_node(G, u, EmptyDict)
        G2 == IF nx_has_node(G1, v) THEN G1 ELSE nx_add_node(G1, v, EmptyDict)
        k == EdgeKey(G2, u, v)
        old == IF k \in DOMAIN G2.eattr THEN G2.eattr[k] ELSE EmptyDict
        adj1 == FnPut(G2.adj, u, AppendIfMissing(G2.adj[u], v))
        adj2 == IF G2.directed THEN adj1
                ELSE FnPut(adj1, v, AppendIfMissing(adj1[v], u))
    IN  [G2 EXCEPT !.adj = adj2, !.eattr = FnPut(@, k, DictUpdate(old, attr))]

\* A remove_node that leaves the edges at the node in place.
nx_remove_node_keeps_edges(G, n) ==
    [G EXCEPT !.node = Without(@, n),
              !.nattr = FnDrop(@, {n}),
              !.adj = FnDrop(@, {n})]

\* G.remove_node(n), n a node of G: the node and every edge at it go.
nx_remove_node(G, n) ==
    [G EXCEPT !.node = Without(@, n),
              !.nattr = FnDrop(@, {n}),
              !.adj = [m \in (DOMAIN G.adj) \ {n} |-> Without(G.adj[m], n)],
              !.eattr = FnDrop(@, {k \in DOMAIN G.eattr : k[1] = n \/ k[2] = n})]

\* G.remove_edge(u, v), u-v an edge of G.
nx_remove_edge(G, u, v) ==
    LET adj1 == FnPut(G.adj, u, Without(G.adj[u], v))
        adj2 == IF G.directed \/ u = v THEN adj1
                ELSE FnPut(adj1, v, Without(adj1[v], u))
    IN  [G EXCEPT !.adj = adj2, !.eattr = FnDrop(@, {EdgeKey(G, u, v)})]

\* The predecessors of n in a DiGraph.
Predecessors(G, n) == {m \in DOMAIN G.adj : InSeq(n, G.adj[m])}

\* G.degree(n): a self-loop of an undirected graph counts twice; in a
\* DiGraph the in-degree plus the out-degree.
nx_degree(G, n) ==
    IF G.directed
    THEN Len(G.adj[n]) + Cardinality(Predecessors(G, n))
    ELSE Len(G.adj[n]) + (IF InSeq(n, G.adj[n]) THEN 1 ELSE 0)

\* The position of every item of a sequence without repeats.
PosIn(order) == [n \in SeqToSet(order) |-> IndexOf(n, order)]

\* lists[lo] \o ... \o lists[hi].
RECURSIVE Concat(_, _, _)
Concat(lists, lo, hi) ==
    IF lo > hi THEN <<>>
    ELSE IF lo = hi THEN lists[lo]
    ELSE LET mid == (lo + hi) \div 2
         IN  Concat(lists, lo, mid) \o Concat(lists, mid + 1, hi)

\* list(V.edges()) for V the graph G restricted to the nodes of `order` and
\* iterated in that order (G itself when order = G.node): at every node its
\* neighbours in the order of its adjacency; for a DiGraph every successor,
\* for a Graph the neighbours that are not nodes seen before.
ViewEdges(G, order) ==
    LET kept == SeqToSet(order)
        pos == PosIn(order)
        at(i) ==
            LET n == order[i]
                fresh(m) == m \in kept /\ (G.directed \/ pos[m] >= i)
                nbrs == SelectSeq(G.adj[n], fresh)
            IN  [j \in 1..Len(nbrs) |-> <<n, nbrs[j]>>]
    IN  Concat([i \in 1..Len(order) |-> at(i)], 1, Len(order))

\* list(G.edges()): the edges as (u, v) pairs in iteration order.
nx_edges(G) == ViewEdges(G, G.node)

\* list(G.nodes(data=True)).
nx_nodes_data(G) == [i \in 1..Len(G.node) |-> <<G.node[i], G.nattr[G.node[i]]>>]

\* list(G.edges(data=True)).
nx_edges_data(G) ==
    LET es == nx_edges(G)
    IN  [j \in 1..Len(es) |->
            <<es[j][1], es[j][2], G.eattr[EdgeKey(G, es[j][1], es[j][2])]>>]

\* G.add_nodes_from(nodes), nodes a list of (id, dict).
RECURSIVE AddNodesUpTo(_, _, _)
AddNodesUpTo(G, nodes, i) ==
    IF i = 0 THEN G
    ELSE nx_add_node(AddNodesUpTo(G, nodes, i - 1), nodes[i][1], nodes[i][2])

nx_add_nodes_from(G, nodes) == AddNodesUpTo(G, nodes, Len(nodes))

\* G.add_edges_from(edges), edges a list of (u, v, dict).
RECURSIVE AddEdgesUpTo(_, _, _)
AddEdgesUpTo(G, edges, i) ==
    IF i = 0 THEN G
    ELSE nx_add_edge(AddEdgesUpTo(G, edges, i - 1),
                     edges[i][1], edges[i][2], edges[i][3])

nx_add_edges_from(G, edges) == AddEdgesUpTo(G, edges, Len(edges))

\* V.copy() for V the graph G restricted to the nodes of `order` and
\* iterated in that order: a new graph filled from V's dictionaries, the
\* nodes in V's order, then add_edge(u, v) for every node u in order and
\* every neighbour v of u in order.  In the copy of an undirected graph the
\* neighbours of n that are earlier nodes come first, in node order (each
\* was added when that node was visited), followed by n's other neighbours
\* in their order in G.  A DiGraph's successor lists are copied as they are.
SubgraphCopy(G, order) ==
    LET kept == SeqToSet(order)
        pos == PosIn(order)
        nbrs(n) ==
            IF G.directed
            THEN SelectSeq(G.adj[n], LAMBDA m : m \in kept)
            ELSE SelectSeq(SubSeq(order, 1, pos[n] - 1),
                           LAMBDA m : InSeq(m, G.adj[n]))
                 \o SelectSeq(G.adj[n],
                              LAMBDA m : m \in kept /\ pos[m] >= pos[n])
    IN  [directed |-> G.directed,
         node |-> order,
         nattr |-> [n \in kept |-> G.nattr[n]],
         adj |-> [n \in kept |-> nbrs(n)],
         eattr |-> [k \in {e \in DOMAIN G.eattr : e[1] \in kept /\ e[2] \in kept}
                        |-> G.eattr[k]]]

\* G.copy().
nx_copy(G) == SubgraphCopy(G, G.node)

-----------------------------------------------------------------------------
(* The persisted file: GraphML *)

\* The content nx.write_graphml(graph, file) writes: the directedness, the
\* nodes with their data in iteration order, the edges with their data in
\* iteration order.
GraphMLOf(G) ==
    [directed |-> G.directed,
     nodes |-> nx_nodes_data(G),
     edges |-> nx_edges_data(G)]

\* nx.read_graphml(file): the reader adds the nodes and then the edges in
\* file order to a fresh graph of the file's directedness and returns a copy
\* of it as nx.Graph / nx.DiGraph.
nx_read_graphml(content) ==
    LET G0 == IF content.directed THEN nx_DiGraph ELSE nx_Graph
    IN  nx_copy(nx_add_edges_from(nx_add_nodes_from(G0, content.nodes),
                                  content.edges))

\* The file graph_<namespace>.graphml: absent, holding a complete document,
\* or truncated (a write that is under way, or one that raised after the
\* file was opened for writing).
NoContent == GraphMLOf(nx_Graph)

AbsentFile == [state |-> "absent", content |-> NoContent]

TruncatedFile == [state |-> "truncated", content |-> NoContent]

WrittenFile(G) == [state |-> "written", content |-> GraphMLOf(G)]

\* os.path.exists(file_name).
os_path_exists(f) == f.state # "absent"

\* Whether nx.read_graphml raises on f: a truncated document does not parse.
ReadRaises(f) == f.state = "truncated"

\* load_nx_graph(file_name) or nx.Graph() (lines 93, 115, 337), on a file
\* that parses: no file gives None and an empty graph is falsy (len 0), and
\* both are replaced by a fresh nx.Graph().
load_nx_graph_or_new(f) ==
    IF ~os_path_exists(f) THEN nx_Graph
    ELSE LET G == nx_read_graphml(f.content)
         IN  IF nx_number_of_nodes(G) = 0 THEN nx_Graph ELSE G

-----------------------------------------------------------------------------
(* _stabilize_graph *)

\* A _sort_source_target that swaps every edge.
sort_source_target_always_swaps(edge) == <<edge[2], edge[1], edge[3]>>

\* _sort_source_target (lines 59-65): the smaller id first.
sort_source_target(edge) ==
    IF StrGt(edge[1], edge[2]) THEN <<edge[2], edge[1], edge[3]>> ELSE edge

\* A _get_edge_key of the source alone.
get_edge_key_source_only(source, target) == source

\* _get_edge_key (lines 69-70): f"{source} -> {target}".
get_edge_key(source, target) == source \o ArrowText \o target

\* _stabilize_graph(graph) (lines 45-75).
stabilize_graph(graph) ==
    LET fixed_graph == IF graph.directed THEN nx_DiGraph ELSE nx_Graph
        nodes == nx_nodes_data(graph)
        nodeOrder == sorted_by_key([i \in 1..Len(nodes) |-> nodes[i][1]])
        sorted_nodes == [p \in 1..Len(nodes) |-> nodes[nodeOrder[p]]]
        listed == nx_edges_data(graph)
        edges == IF graph.directed THEN listed
                 ELSE [j \in 1..Len(listed) |-> sort_source_target(listed[j])]
        keys == [j \in 1..Len(edges) |-> get_edge_key(edges[j][1], edges[j][2])]
        edgeOrder == sorted_by_key(keys)
        sorted_edges == [p \in 1..Len(edges) |-> edges[edgeOrder[p]]]
    IN  nx_add_edges_from(nx_add_nodes_from(fixed_graph, sorted_nodes),
                          sorted_edges)

-----------------------------------------------------------------------------
(* The storage's operations on the graph _get_graph returned *)

\* What a method returns: `outcome` names the value ("True", "False",
\* "None") or its kind ("int", "dict", "list", "DegreeView", "embeddings",
\* "KnowledgeGraph"), or is "raised" for an exception; num, dict and list
\* hold an int, a dict and a list of tuples of strings.
Value(outcome, num, dict, list) ==
    [outcome |-> outcome, num |-> num, dict |-> dict, list |-> list]

Plain(outcome) == Value(outcome, 0, EmptyDict, <<>>)

BoolValue(b) == Plain(IF b THEN "True" ELSE "False")

\* has_node (line 127).
has_node(G, node_id) == nx_has_node(G, node_id)

\* has_edge (line 131).
has_edge(G, source_node_id, target_node_id) ==
    nx_has_edge(G, source_node_id, target_node_id)

\* get_node (line 135): graph.nodes.get(node_id), None for no node.
get_node(G, node_id) ==
    IF nx_has_node(G, node_id)
    THEN Value("dict", 0, G.nattr[node_id], <<>>)
    ELSE Plain("None")

\* G.nbunch_iter(nbunch) for a string: the node itself, or, for no node,
\* the items of the string (its characters) that are nodes.
nx_nbunch_iter(G, nbunch) ==
    IF nx_has_node(G, nbunch) THEN <<nbunch>>
    ELSE SelectSeq([i \in 1..Len(nbunch) |-> <<nbunch[i]>>],
                   LAMBDA c : nx_has_node(G, c))

\* node_degree (line 139): graph.degree(node_id) is the node's degree, and
\* for no node a DegreeView over nbunch_iter(node_id).
node_degree(G, node_id) ==
    IF nx_has_node(G, node_id)
    THEN Value("int", nx_degree(G, node_id), EmptyDict, <<>>)
    ELSE Value("DegreeView", 0, EmptyDict,
               [i \in 1..Len(nx_nbunch_iter(G, node_id)) |->
                    <<nx_nbunch_iter(G, node_id)[i]>>])

\* edge_degree (line 143): the sum of the two degrees; with an end that is
\* no node a DegreeView is an operand and `+` raises TypeError.
edge_degree(G, src_id, tgt_id) ==
    IF nx_has_node(G, src_id) /\ nx_has_node(G, tgt_id)
    THEN Value("int", nx_degree(G, src_id) + nx_degree(G, tgt_id),
               EmptyDict, <<>>)
    ELSE Plain("raised")

\* get_edge (line 149): graph.edges.get((source, target)), None for no edge.
get_edge(G, source_node_id, target_node_id) ==
    IF nx_has_edge(G, source_node_id, target_node_id)
    THEN Value("dict", 0,
               G.eattr[EdgeKey(G, source_node_id, target_node_id)], <<>>)
    ELSE Plain("None")

\* get_node_edges (lines 153-155): list(graph.edges(source_node_id)), the
\* pairs of the node and each of its neighbours in the adjacency's order;
\* None for no node.
get_node_edges(G, source_node_id) ==
    IF nx_has_node(G, source_node_id)
    THEN Value("list", 0, EmptyDict,
               [j \in 1..Len(G.adj[source_node_id]) |->
                    <<source_node_id, G.adj[source_node_id][j]>>])
    ELSE Plain("None")

\* get_all_labels (lines 221-226): the ids, sorted.
get_all_labels(G) ==
    Value("list", 0, EmptyDict,
          [p \in 1..Len(G.node) |-> <<G.node[sorted_by_key(G.node)[p]]>>])

\* self._node_embed_algorithms (lines 95-97).
node_embed_algorithms == {"node2vec"}

\* _node2vec_embed (lines 184-190) on the graph G: what
\* embed.node2vec_embed does is graspologic's; it returns or raises.  When
\* it returns the nodes, line 189 raises KeyError at a node with no "id"
\* attribute.
node2vec_embed(G) ==
    {Plain("raised")}
    \cup (IF \A i \in 1..Len(G.node) : "id" \in DOMAIN G.nattr[G.node[i]]
          THEN {Value("embeddings", 0, EmptyDict,
                      [i \in 1..Len(G.node) |-> <<G.nattr[G.node[i]].id>>])}
          ELSE {})

\* upsert_node (line 159).
upsert_node(G, node_id, node_data) == nx_add_node(G, node_id, node_data)

\* upsert_edge (line 165).
upsert_edge(G, source_node_id, target_node_id, edge_data) ==
    nx_add_edge(G, source_node_id, target_node_id, edge_data)

\* A delete_node that only logs.
delete_node_only_logs(G, node_id) == G

\* delete_node (lines 169-173): an absent node is only logged.
delete_node(G, node_id) ==
    IF nx_has_node(G, node_id) THEN nx_remove_node(G, node_id) ELSE G

\* remove_nodes (lines 199-201).
RECURSIVE RemoveNodesUpTo(_, _, _)
RemoveNodesUpTo(G, nodes, i) ==
    IF i = 0 THEN G
    ELSE LET H == RemoveNodesUpTo(G, nodes, i - 1)
         IN  IF nx_has_node(H, nodes[i]) THEN nx_remove_node(H, nodes[i]) ELSE H

remove_nodes(G, nodes) == RemoveNodesUpTo(G, nodes, Len(nodes))

\* remove_edges (lines 210-212).
RECURSIVE RemoveEdgesUpTo(_, _, _)
RemoveEdgesUpTo(G, edges, i) ==
    IF i = 0 THEN G
    ELSE LET H == RemoveEdgesUpTo(G, edges, i - 1)
         IN  IF nx_has_edge(H, edges[i][1], edges[i][2])
             THEN nx_remove_edge(H, edges[i][1], edges[i][2]) ELSE H

remove_edges(G, edges) == RemoveEdgesUpTo(G, edges, Len(edges))

-----------------------------------------------------------------------------
(* get_knowledge_graph *)

StarText == <<42>>

\* KnowledgeGraph(): no nodes, no edges.
KnowledgeGraph == [nodes |-> <<>>, edges |-> <<>>]

\* max_graph_nodes (line 268).
max_graph_nodes == 500

\* nodes_to_explore (lines 255-258): the nodes whose id contains node_label,
\* in the graph's order.
nodes_to_explore(G, node_label) ==
    SelectSeq(G.node, LAMBDA n : StrContains(n, node_label))

\* nx.single_source_shortest_path_length(G, n, cutoff): the nodes reached
\* from those of S in at most k steps along G's adjacency.
RECURSIVE Reached(_, _, _)
Reached(G, S, k) ==
    IF k <= 0 THEN S
    ELSE LET T == S \cup UNION {SeqToSet(G.adj[m]) : m \in S}
         IN  IF T = S THEN S ELSE Reached(G, T, k - 1)

\* The order in which a subgraph view of a graph with the nodes `all`
\* iterates the nodes of the set `kept` (networkx FilterAtlas.__iter__): the
\* set's own order, set_order, when the set has fewer than half the nodes,
\* else the graph's order.
FilterOrder(all, kept, set_order) ==
    IF 2 * Cardinality(kept) < Len(all) THEN set_order
    ELSE SelectSeq(all, LAMBDA n : n \in kept)

\* nx.ego_graph(G, n, radius=radius) (line 265): G.subgraph(sp).copy().
ego_graph(G, n, radius, set_order) ==
    SubgraphCopy(G, FilterOrder(G.node, Reached(G, {n}, radius), set_order))

\* The subgraph of lines 248-265, node_label being "*" or matching a node.
Candidate(G, node_label, max_depth, ego_order) ==
    IF node_label = StarText THEN nx_copy(G)
    ELSE ego_graph(G, nodes_to_explore(G, node_label)[1], max_depth,
                   ego_order)

\* The items of the degrees of S, those of the highest degree first and
\* those of one degree in their order.
RECURSIVE ByDegreeDescending(_, _)
ByDegreeDescending(items, S) ==
    IF S = {} THEN <<>>
    ELSE LET d == CHOOSE x \in S : \A y \in S : y <= x
         IN  SelectSeq(items, LAMBDA x : x[2] = d)
             \o ByDegreeDescending(items, S \ {d})

\* The same, those of the lowest degree first.
RECURSIVE ByDegreeAscending(_, _)
ByDegreeAscending(items, S) ==
    IF S = {} THEN <<>>
    ELSE LET d == CHOOSE x \in S : \A y \in S : y >= x
         IN  SelectSeq(items, LAMBDA x : x[2] = d)
             \o ByDegreeAscending(items, S \ {d})

\* A sort of node_degrees.items() without reverse=True.
sorted_by_degree_ascending(items) ==
    ByDegreeAscending(items, {items[i][2] : i \in 1..Len(items)})

\* sorted(node_degrees.items(), key=lambda x: x[1], reverse=True) (line
\* 272): the sort is stable, so the items come by degree, the highest first,
\* and those of equal degree in their order in node_degrees.
sorted_by_degree(items) ==
    ByDegreeDescending(items, {items[i][2] : i \in 1..Len(items)})

\* top_node_ids (lines 271-275) of a subgraph with more than
\* max_graph_nodes nodes.
top_node_ids(subgraph) ==
    LET node_degrees == [i \in 1..Len(subgraph.node) |->
                            <<subgraph.node[i],
                              nx_degree(subgraph, subgraph.node[i])>>]
        top_nodes == SubSeq(sorted_by_degree(node_degrees), 1, max_graph_nodes)
    IN  [i \in 1..Len(top_nodes) |-> top_nodes[i][1]]

\* KnowledgeGraphNode (lines 299-303): the labels are the id alone.
KnowledgeGraphNode(node, node_data) ==
    [id |-> node, labels |-> <<node>>, properties |-> node_data]

\* KnowledgeGraphEdge (lines 316-324).
KnowledgeGraphEdge(edge_id, source, target, edge_data) ==
    [id |-> edge_id, type |-> "DIRECTED", source |-> source,
     target |-> target, properties |-> edge_data]

\* The items of a sequence whose id no earlier item has (seen_edges, lines
\* 310-311, 325).
FirstOfEachId(edges) ==
    LET ids == {edges[j].id : j \in 1..Len(edges)}
        firsts == {j \in 1..Len(edges) :
                      \A i \in 1..(j - 1) : edges[i].id # edges[j].id}
        marked == [j \in 1..Len(edges) |-> <<j \in firsts, edges[j]>>]
        chosen == SelectSeq(marked, LAMBDA x : x[1])
    IN  IF Cardinality(ids) = Len(edges) THEN edges
        ELSE [j \in 1..Len(chosen) |-> chosen[j][2]]

\* get_knowledge_graph(node_label, max_depth) on the graph G (lines
\* 241-330).  ego_order and top_order are the orders in which the build
\* iterates the set of nodes of the ego graph and the set top_node_ids.
get_knowledge_graph(G, node_label, max_depth, ego_order, top_order) ==
    IF node_label # StarText /\ nodes_to_explore(G, node_label) = <<>>
    THEN KnowledgeGraph
    ELSE
      LET subgraph == Candidate(G, node_label, max_depth, ego_order)
          order ==
              IF nx_number_of_nodes(subgraph) > max_graph_nodes
              THEN FilterOrder(subgraph.node,
                               SeqToSet(top_node_ids(subgraph)), top_order)
              ELSE subgraph.node
          es == ViewEdges(subgraph, order)
      IN  [nodes |-> [i \in 1..Len(order) |->
                        KnowledgeGraphNode(order[i], subgraph.nattr[order[i]])],
           edges |-> FirstOfEachId(
                        [j \in 1..Len(es) |->
                            KnowledgeGraphEdge(
                                es[j][1] \o DashText \o es[j][2],
                                es[j][1], es[j][2],
                                subgraph.eattr[EdgeKey(subgraph, es[j][1],
                                                       es[j][2])])])]

\* The orders in which a set can be iterated.
SetOrders(S) ==
    {f \in [1..Cardinality(S) -> S] :
        \A i, j \in 1..Cardinality(S) : f[i] = f[j] => i = j}

\* The orders in which the build can iterate the nodes of the ego graph,
\* where get_knowledge_graph depends on it.
EgoOrders(G, node_label, max_depth) ==
    IF node_label = StarText \/ nodes_to_explore(G, node_label) = <<>>
    THEN {<<>>}
    ELSE LET sp == Reached(G, {nodes_to_explore(G, node_label)[1]}, max_depth)
         IN  IF 2 * Cardinality(sp) < nx_number_of_nodes(G)
             THEN SetOrders(sp) ELSE {<<>>}

\* The orders in which the build can iterate the set top_node_ids, where
\* get_knowledge_graph depends on it: the view of line 280 iterates the set
\* when it has fewer than half the subgraph's nodes.
TopOrders(G, node_label, max_depth, ego_order) ==
    IF \/ nx_number_of_nodes(G) <= 2 * max_graph_nodes
       \/ node_label # StarText /\ nodes_to_explore(G, node_label) = <<>>
    THEN {<<>>}
    ELSE LET subgraph == Candidate(G, node_label, max_depth, ego_order)
         IN  IF nx_number_of_nodes(subgraph) > 2 * max_graph_nodes
             THEN SetOrders(SeqToSet(top_node_ids(subgraph)))
             ELSE {<<>>}

-----------------------------------------------------------------------------
(* Bounds and inputs of the protocol specification *)

\* Storage instances sharing the namespace (one per worker process).
NumProcs == 2

\* Coroutines calling the storages; task t runs on the storage ProcOf(t).
NumTasks == 3

\* Calls started in one behaviour.
MaxOps == 3

Procs == 1..NumProcs

Tasks == 1..NumTasks

NoTask == 0

ProcOf(t) == ((t - 1) % NumProcs) + 1

\* The calls of the protocol specification.
Calls ==
    {[name |-> "has_node", args |-> <<id_a>>],
     [name |-> "upsert_node", args |-> <<id_a, [entity_type |-> "person"]>>],
     [name |-> "upsert_edge", args |-> <<id_b, id_a, [weight |-> "1"]>>],
     [name |-> "delete_node", args |-> <<id_a>>],
     [name |-> "remove_nodes", args |-> <<<<id_a, id_b>>>>],
     [name |-> "remove_edges", args |-> <<<<<<id_b, id_a>>, <<id_a, id_a>>>>>>],
     [name |-> "has_edge", args |-> <<id_b, id_a>>],
     [name |-> "get_node", args |-> <<id_a>>],
     [name |-> "node_degree", args |-> <<id_a>>],
     [name |-> "edge_degree", args |-> <<id_b, id_a>>],
     [name |-> "get_edge", args |-> <<id_a, id_b>>],
     [name |-> "get_node_edges", args |-> <<id_a>>],
     [name |-> "get_all_labels", args |-> <<>>],
     [name |-> "embed_nodes", args |-> <<"node2vec">>],
     [name |-> "get_knowledge_graph", args |-> <<StarText, 1>>],
     [name |-> "index_done_callback", args |-> <<>>]}

\* Algorithms embed_nodes is called with that it does not have.
UnsupportedAlgorithms == {"deepwalk"}

\* The calls of the single-storage specification SpecCrud: every method on
\* every id of CrudIds.
CrudIds == {id_a, id_b, id_c}

CrudNodeDatas == {EmptyDict, [entity_type |-> "person"]}

CrudEdgeDatas == {[weight |-> "1"]}

CrudNodeLists == {<<n, m>> : n \in CrudIds, m \in CrudIds}

CrudEdgeLists == {<<<<u, v>>, <<v, u>>>> : u \in CrudIds, v \in CrudIds}

CrudCalls ==
    {[name |-> "has_node", args |-> <<n>>] : n \in CrudIds}
    \cup {[name |-> "upsert_node", args |-> <<n, d>>] :
            n \in CrudIds, d \in CrudNodeDatas}
    \cup {[name |-> "upsert_edge", args |-> <<u, v, d>>] :
            u \in CrudIds, v \in CrudIds, d \in CrudEdgeDatas}
    \cup {[name |-> "delete_node", args |-> <<n>>] : n \in CrudIds}
    \cup {[name |-> "remove_nodes", args |-> <<l>>] : l \in CrudNodeLists}
    \cup {[name |-> "remove_edges", args |-> <<l>>] : l \in CrudEdgeLists}
    \cup {[name |-> m, args |-> <<n>>] :
            m \in {"get_node", "node_degree", "get_node_edges"}, n \in CrudIds}
    \cup {[name |-> m, args |-> <<u, v>>] :
            m \in {"has_edge", "edge_degree", "get_edge"},
            u \in CrudIds, v \in CrudIds}
    \cup {[name |-> "get_all_labels", args |-> <<>>],
          [name |-> "embed_nodes", args |-> <<"node2vec">>]}
    \cup {[name |-> "get_knowledge_graph", args |-> <<l, 1>>] :
            l \in {StarText, id_a}}

NoCall == [name |-> "none", args |-> <<>>]

\* What the method does to the graph it got from _get_graph, and returns.
MethodGraph(o, G) ==
    CASE o.name = "upsert_node" -> upsert_node(G, o.args[1], o.args[2])
      [] o.name = "upsert_edge" ->
            upsert_edge(G, o.args[1], o.args[2], o.args[3])
      [] o.name = "delete_node" -> delete_node(G, o.args[1])
      [] o.name = "remove_nodes" -> remove_nodes(G, o.args[1])
      [] o.name = "remove_edges" -> remove_edges(G, o.args[1])
      [] OTHER -> G

\* What the method returns; get_knowledge_graph's KnowledgeGraph is kept in
\* kg_result.
MethodResult(o, G) ==
    CASE o.name = "has_node" -> BoolValue(has_node(G, o.args[1]))
      [] o.name = "has_edge" -> BoolValue(has_edge(G, o.args[1], o.args[2]))
      [] o.name = "get_node" -> get_node(G, o.args[1])
      [] o.name = "node_degree" -> node_degree(G, o.args[1])
      [] o.name = "edge_degree" -> edge_degree(G, o.args[1], o.args[2])
      [] o.name = "get_edge" -> get_edge(G, o.args[1], o.args[2])
      [] o.name = "get_node_edges" -> get_node_edges(G, o.args[1])
      [] o.name = "get_all_labels" -> get_all_labels(G)
      [] o.name = "get_knowledge_graph" -> Plain("KnowledgeGraph")
      [] OTHER -> Plain("None")

\* The values the method can return: one, but for embed_nodes, whose value
\* is graspologic's.
MethodResults(o, G) ==
    IF o.name = "embed_nodes" THEN node2vec_embed(G)
    ELSE {MethodResult(o, G)}

-----------------------------------------------------------------------------
(* State *)

VARIABLES
    is_multiprocess,   \* shared_storage.is_multiprocess, fixed per behaviour
    graphml_file,      \* the file self._graphml_xml_file
    storage_lock,      \* the task holding the namespace lock, or NoTask
    pstate,            \* per storage: "new", "constructed" (after
                       \* __post_init__), "ready" (after initialize), "failed"
    storage_updated,   \* per storage: self.storage_updated, its staleness flag
    registered,        \* per storage: self.storage_updated is the flag that
                       \* get_update_flag registered for the namespace, the
                       \* one set_all_update_flags reaches
    graph,             \* per storage: self._graph
    pc,                \* per task: where the task is in its call
    op,                \* per task: the call it runs, or ran last
    held,              \* per task: the local variable `graph` of
                       \* index_done_callback: "self" (it is self._graph),
                       \* "old" (an object self._graph no longer is), "none"
    returned,          \* the call that returned last: its task and outcome
    log,               \* per task, of its current call: whether the flag was
                       \* set when it was called, whether a reload of its
                       \* storage replaced a changed graph during it, and
                       \* the other storages of the namespace when it
                       \* called set_all_update_flags
    nops,              \* calls started so far
    hist,              \* per storage, what happened since it last loaded the
                       \* file or wrote it: dirty, its methods have changed
                       \* its graph; current, no other storage has written
                       \* the file
    stab_graph,        \* the graph handed to _stabilize_graph (SpecStab)
    stab_result,       \* what _stabilize_graph returned for it (SpecStab)
    kg_graph,          \* the graph the last get_knowledge_graph got from
                       \* _get_graph
    kg_call,           \* the arguments of that call, and the order in which
                       \* the build iterated the set of nodes of the ego
                       \* graph
    kg_result          \* the KnowledgeGraph that call returned

stabVars == <<stab_graph, stab_result>>

kgVars == <<kg_graph, kg_call, kg_result>>

pureVars == <<stab_graph, stab_result, kg_graph, kg_call, kg_result>>

protocolVars == <<is_multiprocess, graphml_file, storage_lock, pstate,
                  storage_updated, registered, graph, pc, op, held, returned,
                  log, nops, hist>>

vars == <<is_multiprocess, graphml_file, storage_lock, pstate,
          storage_updated, registered, graph, pc, op, held, returned, log,
          nops, hist,
          stab_graph, stab_result, kg_graph, kg_call, kg_result>>

NoRef == [kind |-> "none", g |-> nx_Graph]

SelfRef == [kind |-> "self", g |-> nx_Graph]

OldRef(G) == [kind |-> "old", g |-> G]

\* The graph object task t's local variable `graph` refers to.
RefGraph(t) ==
    IF held[t].kind = "old" THEN held[t].g ELSE graph[ProcOf(t)]

\* The return of task t's call: the value r, or the value or exception
\* named v.
ReturnsValue(t, r) ==
    [task |-> t, outcome |-> r.outcome, num |-> r.num, dict |-> r.dict,
     list |-> r.list]

Returns(t, v) == ReturnsValue(t, Plain(v))

NoReturn == Returns(NoTask, "None")

NoLog == [entered_stale |-> FALSE, discarded |-> FALSE, notified |-> {}]

NoHist == [dirty |-> FALSE, current |-> FALSE]

\* Storage p has just read the file: nothing of its own is left to save and
\* it has what the file holds.
Loaded(p) == hist' = [hist EXCEPT ![p] = [dirty |-> FALSE, current |-> TRUE]]

\* self._graph of storage p is replaced by a loaded graph: an
\* index_done_callback under way on p loses the changes p had not saved.
Discard(p) ==
    log' = [u \in Tasks |->
              IF /\ ProcOf(u) = p
                 /\ pc[u] # "idle"
                 /\ op[u].name = "index_done_callback"
                 /\ hist[p].dirty
              THEN [log[u] EXCEPT !.discarded = TRUE] ELSE log[u]]

NoStabResult == [called |-> FALSE, graph |-> nx_Graph]

NoKGCall == [called |-> FALSE, node_label |-> <<>>, max_depth |-> 0,
             ego_order |-> <<>>]

StabIdle == stab_graph = nx_Graph /\ stab_result = NoStabResult

KGIdle == kg_graph = nx_Graph /\ kg_call = NoKGCall /\ kg_result = KnowledgeGraph

\* A task between two points where it can be suspended runs alone on its
\* event loop: the other coroutines of the loop run only while it waits for
\* the lock or is not in a call.  One loop per worker process; in
\* single-process mode every storage lives on the same loop.
RunningPcs == {"enter_get", "get_graph", "apply", "conflict_load",
               "conflict_clear", "enter_write", "write_open", "writing",
               "notify", "return_true"}

SameLoop(t, u) == ~is_multiprocess \/ ProcOf(t) = ProcOf(u)

CanRun(t) == \A u \in Tasks \ {t} : SameLoop(t, u) => pc[u] \notin RunningPcs

LoopFree(p) ==
    \A u \in Tasks :
        (~is_multiprocess \/ ProcOf(u) = p) => pc[u] \notin RunningPcs

ProtocolInit ==
    /\ is_multiprocess \in BOOLEAN
    /\ graphml_file = AbsentFile
    /\ storage_lock = NoTask
    /\ pstate = [p \in Procs |-> "new"]
    /\ storage_updated = [p \in Procs |-> FALSE]
    /\ registered = [p \in Procs |-> FALSE]
    /\ graph = [p \in Procs |-> nx_Graph]
    /\ pc = [t \in Tasks |-> "idle"]
    /\ op = [t \in Tasks |-> NoCall]
    /\ held = [t \in Tasks |-> NoRef]
    /\ returned = NoReturn
    /\ log = [t \in Tasks |-> NoLog]
    /\ nops = 0
    /\ hist = [p \in Procs |-> NoHist]

\* The reset of storage p's flag (lines 117-120, 351-354): in multi-process
\* mode `self.storage_updated.value = False` clears the registered flag; in
\* single-process mode `self.storage_updated = False` binds the attribute to
\* the constant False, which is the registered flag no more.
ResetFlag(p) ==
    /\ storage_updated' = [storage_updated EXCEPT ![p] = FALSE]
    /\ registered' = [registered EXCEPT ![p] = is_multiprocess /\ @]

\* self._graph = G in storage p by task t: a local variable of another task
\* of p that referred to self._graph now refers to the replaced object.
Rebind(p, t, G) ==
    /\ graph' = [graph EXCEPT ![p] = G]
    /\ held' = [u \in Tasks |->
                  IF u # t /\ ProcOf(u) = p /\ held[u].kind = "self"
                  THEN OldRef(graph[p]) ELSE held[u]]

-----------------------------------------------------------------------------
(* __post_init__ and initialize *)

\* __post_init__ (lines 77-97): the file is loaded with no lock (the storage
\* has none yet).
PostInit(p) ==
    /\ pstate[p] = "new"
    /\ LoopFree(p)
    /\ ~ReadRaises(graphml_file)
    /\ pstate' = [pstate EXCEPT ![p] = "constructed"]
    /\ graph' = [graph EXCEPT ![p] = load_nx_graph_or_new(graphml_file)]
    /\ Loaded(p)
    /\ UNCHANGED <<log, pureVars>>
    /\ UNCHANGED <<is_multiprocess, registered, graphml_file, storage_lock,
                   storage_updated, pc, op, held, returned, nops>>

\* __post_init__ when nx.read_graphml raises: the constructor raises.
PostInitRaises(p) ==
    /\ pstate[p] = "new"
    /\ LoopFree(p)
    /\ ReadRaises(graphml_file)
    /\ pstate' = [pstate EXCEPT ![p] = "failed"]
    /\ UNCHANGED hist
    /\ UNCHANGED <<log, pureVars>>
    /\ UNCHANGED <<is_multiprocess, registered, graphml_file, storage_lock,
                   storage_updated, graph, pc, op, held, returned, nops>>

\* initialize (lines 99-104): get_update_flag registers a fresh, clear flag
\* for this storage; get_storage_lock gives the namespace lock.
Initialize(p) ==
    /\ pstate[p] = "constructed"
    /\ LoopFree(p)
    /\ pstate' = [pstate EXCEPT ![p] = "ready"]
    /\ storage_updated' = [storage_updated EXCEPT ![p] = FALSE]
    /\ registered' = [registered EXCEPT ![p] = TRUE]
    /\ UNCHANGED hist
    /\ UNCHANGED <<log, pureVars>>
    /\ UNCHANGED <<is_multiprocess, graphml_file, storage_lock, graph,
                   pc, op, held, returned, nops>>

-----------------------------------------------------------------------------
(* Calls *)

\* A task calls a method other than index_done_callback (embed_nodes with
\* an algorithm it has): the method's first statement that acts is
\* `graph = await self._get_graph()`, whose first is the
\* `async with self._storage_lock` of line 109: a free lock is taken at once,
\* a held one suspends the task.
Call(t, o) ==
    /\ pc[t] = "idle"
    /\ pstate[ProcOf(t)] = "ready"
    /\ CanRun(t)
    /\ nops < MaxOps
    /\ o.name # "index_done_callback"
    /\ pc' = [pc EXCEPT ![t] =
                IF storage_lock = NoTask THEN "get_graph" ELSE "wait_get"]
    /\ storage_lock' = IF storage_lock = NoTask THEN t ELSE storage_lock
    /\ op' = [op EXCEPT ![t] = o]
    /\ log' = [log EXCEPT ![t] = [entered_stale |-> storage_updated[ProcOf(t)],
                                  discarded |-> FALSE, notified |-> {}]]
    /\ nops' = nops + 1
    /\ UNCHANGED hist
    /\ UNCHANGED pureVars
    /\ UNCHANGED <<is_multiprocess, registered, graphml_file, pstate,
                   storage_updated, graph, held, returned>>

\* index_done_callback is called (line 334): with the flag set in
\* multi-process mode it goes to reload instead of saving, else to
\* _get_graph (line 343).
CallIndexDone(t) ==
    /\ pc[t] = "idle"
    /\ pstate[ProcOf(t)] = "ready"
    /\ CanRun(t)
    /\ nops < MaxOps
    /\ pc' = [pc EXCEPT ![t] =
                IF is_multiprocess /\ storage_updated[ProcOf(t)]
                THEN "conflict_load" ELSE "enter_get"]
    /\ op' = [op EXCEPT ![t] = [name |-> "index_done_callback", args |-> <<>>]]
    /\ log' = [log EXCEPT ![t] = [entered_stale |-> storage_updated[ProcOf(t)],
                                  discarded |-> FALSE, notified |-> {}]]
    /\ nops' = nops + 1
    /\ UNCHANGED hist
    /\ UNCHANGED pureVars
    /\ UNCHANGED <<is_multiprocess, registered, graphml_file, storage_lock,
                   pstate,
                   storage_updated, graph, held, returned>>

\* index_done_callback, line 337: the reload of the conflict path; no lock
\* is taken.
ConflictLoad(t) ==
    /\ pc[t] = "conflict_load"
    /\ CanRun(t)
    /\ ~ReadRaises(graphml_file)
    /\ Rebind(ProcOf(t), t, load_nx_graph_or_new(graphml_file))
    /\ pc' = [pc EXCEPT ![t] = "conflict_clear"]
    /\ Loaded(ProcOf(t))
    /\ Discard(ProcOf(t))
    /\ UNCHANGED pureVars
    /\ UNCHANGED <<is_multiprocess, registered, graphml_file, storage_lock,
                   pstate,
                   storage_updated, op, returned, nops>>

\* line 337 when nx.read_graphml raises: index_done_callback raises.
ConflictLoadRaises(t) ==
    /\ pc[t] = "conflict_load"
    /\ CanRun(t)
    /\ ReadRaises(graphml_file)
    /\ pc' = [pc EXCEPT ![t] = "idle"]
    /\ op' = [op EXCEPT ![t] = NoCall]
    /\ log' = [log EXCEPT ![t] = NoLog]
    /\ returned' = Returns(t, "raised")
    /\ UNCHANGED hist
    /\ UNCHANGED pureVars
    /\ UNCHANGED <<is_multiprocess, registered, graphml_file, storage_lock,
                   pstate,
                   storage_updated, graph, held, nops>>

\* lines 339-340: the flag is reset and the call returns False.
ConflictClear(t) ==
    /\ pc[t] = "conflict_clear"
    /\ CanRun(t)
    /\ storage_updated' = [storage_updated EXCEPT ![ProcOf(t)] = FALSE]
    /\ pc' = [pc EXCEPT ![t] = "idle"]
    /\ op' = [op EXCEPT ![t] = NoCall]
    /\ log' = [log EXCEPT ![t] = NoLog]
    /\ returned' = Returns(t, "False")
    /\ UNCHANGED hist
    /\ UNCHANGED pureVars
    /\ UNCHANGED <<is_multiprocess, registered, graphml_file, storage_lock,
                   pstate,
                   graph, held, nops>>

\* embed_nodes with an algorithm that is not in self._node_embed_algorithms
\* (lines 178-179): ValueError, before any lock or graph.
EmbedNodesRaises(t, algorithm) ==
    /\ pc[t] = "idle"
    /\ pstate[ProcOf(t)] = "ready"
    /\ CanRun(t)
    /\ nops < MaxOps
    /\ algorithm \notin node_embed_algorithms
    /\ returned' = Returns(t, "raised")
    /\ nops' = nops + 1
    /\ UNCHANGED hist
    /\ UNCHANGED <<log, pureVars>>
    /\ UNCHANGED <<is_multiprocess, registered, graphml_file, storage_lock,
                   pstate,
                   storage_updated, graph, pc, op, held>>

-----------------------------------------------------------------------------
(* _get_graph *)

\* _get_graph called by index_done_callback (line 343) reaches line 109: a
\* free lock is taken at once, a held one suspends the task.
EnterGet(t) ==
    /\ pc[t] = "enter_get"
    /\ pc' = [pc EXCEPT ![t] =
                IF storage_lock = NoTask THEN "get_graph" ELSE "wait_get"]
    /\ storage_lock' = IF storage_lock = NoTask THEN t ELSE storage_lock
    /\ UNCHANGED hist
    /\ UNCHANGED <<log, pureVars>>
    /\ UNCHANGED <<is_multiprocess, registered, graphml_file, pstate, storage_updated,
                   graph, op, held, returned, nops>>

\* _get_graph, line 109: a suspended task takes the lock once it is free.
AcquireForGet(t) ==
    /\ pc[t] = "wait_get"
    /\ CanRun(t)
    /\ storage_lock = NoTask
    /\ storage_lock' = t
    /\ pc' = [pc EXCEPT ![t] = "get_graph"]
    /\ UNCHANGED hist
    /\ UNCHANGED <<log, pureVars>>
    /\ UNCHANGED <<is_multiprocess, registered, graphml_file, pstate, storage_updated,
                   graph, op, held, returned, nops>>

\* The condition of lines 111-112 in storage p.
NeedsReload(p) ==
    \/ is_multiprocess /\ storage_updated[p]
    \/ ~is_multiprocess /\ storage_updated[p]

\* Where a call goes when _get_graph has returned: index_done_callback to
\* the lock of line 344, any other method to its own statements.
AfterGet(t) ==
    IF op[t].name = "index_done_callback" THEN "enter_write" ELSE "apply"

\* A _get_graph that returns self._graph with the lock still held.
GetGraph_keeps_lock(t) ==
    /\ pc[t] = "get_graph"
    /\ ~NeedsReload(ProcOf(t))
    /\ held' = [held EXCEPT ![t] = SelfRef]
    /\ pc' = [pc EXCEPT ![t] = AfterGet(t)]
    /\ UNCHANGED hist
    /\ UNCHANGED <<log, pureVars>>
    /\ UNCHANGED <<is_multiprocess, registered, graphml_file, storage_lock,
                   pstate,
                   storage_updated, graph, op, returned, nops>>

\* _get_graph, lines 111-122, flag clear: self._graph is returned and the
\* lock released.
GetGraph(t) ==
    /\ pc[t] = "get_graph"
    /\ ~NeedsReload(ProcOf(t))
    /\ storage_lock' = NoTask
    /\ held' = [held EXCEPT ![t] = SelfRef]
    /\ pc' = [pc EXCEPT ![t] = AfterGet(t)]
    /\ UNCHANGED hist
    /\ UNCHANGED <<log, pureVars>>
    /\ UNCHANGED <<is_multiprocess, registered, graphml_file, pstate, storage_updated,
                   graph, op, returned, nops>>

\* _get_graph, lines 111-122, flag set: self._graph is replaced by the
\* file's graph (a new one if there is no file), the flag reset, the lock
\* released and the new self._graph returned.
GetGraphReload(t) ==
    /\ pc[t] = "get_graph"
    /\ NeedsReload(ProcOf(t))
    /\ ~ReadRaises(graphml_file)
    /\ graph' = [graph EXCEPT ![ProcOf(t)] = load_nx_graph_or_new(graphml_file)]
    /\ held' = [u \in Tasks |->
                  IF u = t THEN SelfRef
                  ELSE IF ProcOf(u) = ProcOf(t) /\ held[u].kind = "self"
                       THEN OldRef(graph[ProcOf(t)]) ELSE held[u]]
    /\ ResetFlag(ProcOf(t))
    /\ storage_lock' = NoTask
    /\ pc' = [pc EXCEPT ![t] = AfterGet(t)]
    /\ Loaded(ProcOf(t))
    /\ Discard(ProcOf(t))
    /\ UNCHANGED pureVars
    /\ UNCHANGED <<is_multiprocess, graphml_file, pstate, op, returned, nops>>

\* A _get_graph whose lock is not released when nx.read_graphml raises.
GetGraphRaises_keeps_lock(t) ==
    /\ pc[t] = "get_graph"
    /\ NeedsReload(ProcOf(t))
    /\ ReadRaises(graphml_file)
    /\ pc' = [pc EXCEPT ![t] = "idle"]
    /\ op' = [op EXCEPT ![t] = NoCall]
    /\ log' = [log EXCEPT ![t] = NoLog]
    /\ returned' = Returns(t, "raised")
    /\ UNCHANGED hist
    /\ UNCHANGED pureVars
    /\ UNCHANGED <<is_multiprocess, registered, graphml_file, storage_lock,
                   pstate,
                   storage_updated, graph, held, nops>>

\* _get_graph when nx.read_graphml raises at line 115: `async with` releases
\* the lock and the exception leaves the calling method.
GetGraphRaises(t) ==
    /\ pc[t] = "get_graph"
    /\ NeedsReload(ProcOf(t))
    /\ ReadRaises(graphml_file)
    /\ storage_lock' = NoTask
    /\ pc' = [pc EXCEPT ![t] = "idle"]
    /\ op' = [op EXCEPT ![t] = NoCall]
    /\ log' = [log EXCEPT ![t] = NoLog]
    /\ returned' = Returns(t, "raised")
    /\ UNCHANGED hist
    /\ UNCHANGED pureVars
    /\ UNCHANGED <<is_multiprocess, registered, graphml_file, pstate, storage_updated,
                   graph, held, nops>>

\* The statements of a method after `graph = await self._get_graph()`:
\* they run on the returned graph with the lock released.  upsert_node,
\* upsert_edge, delete_node, remove_nodes and remove_edges change it; the
\* others read it and return a value.  The graph, the arguments and the
\* result of a get_knowledge_graph are kept in kg_graph, kg_call and
\* kg_result.
Apply(t) ==
    /\ pc[t] = "apply"
    /\ graph' = [graph EXCEPT ![ProcOf(t)] = MethodGraph(op[t], RefGraph(t))]
    /\ \E r \in MethodResults(op[t], RefGraph(t)) :
          returned' = ReturnsValue(t, r)
    /\ IF op[t].name = "get_knowledge_graph"
       THEN \E ego_order \in EgoOrders(RefGraph(t), op[t].args[1],
                                       op[t].args[2]) :
              \E top_order \in TopOrders(RefGraph(t), op[t].args[1],
                                         op[t].args[2], ego_order) :
                /\ kg_graph' = RefGraph(t)
                /\ kg_call' = [called |-> TRUE, node_label |-> op[t].args[1],
                               max_depth |-> op[t].args[2],
                               ego_order |-> ego_order]
                /\ kg_result' = get_knowledge_graph(RefGraph(t), op[t].args[1],
                                                    op[t].args[2], ego_order,
                                                    top_order)
       ELSE UNCHANGED kgVars
    /\ held' = [held EXCEPT ![t] = NoRef]
    /\ pc' = [pc EXCEPT ![t] = "idle"]
    /\ op' = [op EXCEPT ![t] = NoCall]
    /\ log' = [log EXCEPT ![t] = NoLog]
    /\ hist' = [hist EXCEPT ![ProcOf(t)].dirty =
                  @ \/ MethodGraph(op[t], RefGraph(t)) # graph[ProcOf(t)]]
    /\ UNCHANGED stabVars
    /\ UNCHANGED <<is_multiprocess, registered, graphml_file, storage_lock,
                   pstate,
                   storage_updated, nops>>

-----------------------------------------------------------------------------
(* index_done_callback, lines 344-358 *)

\* line 344: the lock is taken again; it was released in _get_graph, and a
\* task of another process may hold it by now.
EnterWrite(t) ==
    /\ pc[t] = "enter_write"
    /\ pc' = [pc EXCEPT ![t] =
                IF storage_lock = NoTask THEN "write_open" ELSE "wait_write"]
    /\ storage_lock' = IF storage_lock = NoTask THEN t ELSE storage_lock
    /\ UNCHANGED hist
    /\ UNCHANGED <<log, pureVars>>
    /\ UNCHANGED <<is_multiprocess, registered, graphml_file, pstate, storage_updated,
                   graph, op, held, returned, nops>>

\* line 344: a suspended task takes the lock once it is free.
AcquireForWrite(t) ==
    /\ pc[t] = "wait_write"
    /\ CanRun(t)
    /\ storage_lock = NoTask
    /\ storage_lock' = t
    /\ pc' = [pc EXCEPT ![t] = "write_open"]
    /\ UNCHANGED hist
    /\ UNCHANGED <<log, pureVars>>
    /\ UNCHANGED <<is_multiprocess, registered, graphml_file, pstate, storage_updated,
                   graph, op, held, returned, nops>>

\* write_nx_graph (line 347) opens the file for writing, which truncates it.
WriteOpen(t) ==
    /\ pc[t] = "write_open"
    /\ graphml_file' = TruncatedFile
    /\ pc' = [pc EXCEPT ![t] = "writing"]
    /\ UNCHANGED hist
    /\ UNCHANGED <<log, pureVars>>
    /\ UNCHANGED <<is_multiprocess, registered, storage_lock, pstate, storage_updated,
                   graph, op, held, returned, nops>>

\* The file cannot be opened: the exception is caught (lines 356-358), the
\* lock released and False returned.
WriteOpenRaises(t) ==
    /\ pc[t] = "write_open"
    /\ storage_lock' = NoTask
    /\ held' = [held EXCEPT ![t] = NoRef]
    /\ pc' = [pc EXCEPT ![t] = "idle"]
    /\ op' = [op EXCEPT ![t] = NoCall]
    /\ log' = [log EXCEPT ![t] = NoLog]
    /\ returned' = Returns(t, "False")
    /\ UNCHANGED hist
    /\ UNCHANGED pureVars
    /\ UNCHANGED <<is_multiprocess, registered, graphml_file, pstate, storage_updated,
                   graph, nops>>

\* The graph index_done_callback hands to write_nx_graph (line 347).
GraphToWrite(t) == RefGraph(t)

\* nx.write_graphml completes: the file holds the document of `graph`.
WriteDone(t) ==
    /\ pc[t] = "writing"
    /\ graphml_file' = WrittenFile(GraphToWrite(t))
    /\ held' = [held EXCEPT ![t] = NoRef]
    /\ pc' = [pc EXCEPT ![t] = "notify"]
    /\ hist' = [q \in Procs |->
                  IF q = ProcOf(t)
                  THEN [dirty |-> hist[q].dirty /\ held[t].kind = "old",
                        current |-> TRUE]
                  ELSE [hist[q] EXCEPT !.current = FALSE]]
    /\ UNCHANGED <<log, pureVars>>
    /\ UNCHANGED <<is_multiprocess, registered, storage_lock, pstate, storage_updated,
                   graph, op, returned, nops>>

\* nx.write_graphml raises and no `except` catches it: the exception leaves
\* index_done_callback.
WriteRaises_uncaught(t) ==
    /\ pc[t] = "writing"
    /\ storage_lock' = NoTask
    /\ held' = [held EXCEPT ![t] = NoRef]
    /\ pc' = [pc EXCEPT ![t] = "idle"]
    /\ op' = [op EXCEPT ![t] = NoCall]
    /\ log' = [log EXCEPT ![t] = NoLog]
    /\ returned' = Returns(t, "raised")
    /\ UNCHANGED hist
    /\ UNCHANGED pureVars
    /\ UNCHANGED <<is_multiprocess, registered, graphml_file, pstate, storage_updated,
                   graph, nops>>

\* nx.write_graphml raises after the file was opened: the file stays
\* truncated, the exception is caught (lines 356-358), the lock released and
\* False returned.
WriteRaises(t) ==
    /\ pc[t] = "writing"
    /\ storage_lock' = NoTask
    /\ held' = [held EXCEPT ![t] = NoRef]
    /\ pc' = [pc EXCEPT ![t] = "idle"]
    /\ op' = [op EXCEPT ![t] = NoCall]
    /\ log' = [log EXCEPT ![t] = NoLog]
    /\ returned' = Returns(t, "False")
    /\ UNCHANGED hist
    /\ UNCHANGED pureVars
    /\ UNCHANGED <<is_multiprocess, registered, graphml_file, pstate, storage_updated,
                   graph, nops>>

\* set_all_update_flags(namespace) (line 349) called by storage p: the
\* flags registered for the namespace by the other storages are set.  A
\* storage whose self.storage_updated is no longer its registered flag does
\* not see it.
set_all_update_flags(p) ==
    [q \in Procs |->
        IF q # p /\ pstate[q] = "ready" /\ registered[q]
        THEN TRUE ELSE storage_updated[q]]

NotifyAll(t) ==
    /\ pc[t] = "notify"
    /\ storage_updated' = set_all_update_flags(ProcOf(t))
    /\ pc' = [pc EXCEPT ![t] = "return_true"]
    /\ log' = [log EXCEPT ![t].notified =
                {q \in Procs \ {ProcOf(t)} : pstate[q] = "ready"}]
    /\ UNCHANGED hist
    /\ UNCHANGED pureVars
    /\ UNCHANGED <<is_multiprocess, registered, graphml_file, storage_lock,
                   pstate,
                   graph, op, held, returned, nops>>

\* lines 351-355: the own flag is reset, True returned, the lock released.
ReturnTrue(t) ==
    /\ pc[t] = "return_true"
    /\ ResetFlag(ProcOf(t))
    /\ storage_lock' = NoTask
    /\ pc' = [pc EXCEPT ![t] = "idle"]
    /\ op' = [op EXCEPT ![t] = NoCall]
    /\ log' = [log EXCEPT ![t] = NoLog]
    /\ returned' = Returns(t, "True")
    /\ UNCHANGED hist
    /\ UNCHANGED pureVars
    /\ UNCHANGED <<is_multiprocess, graphml_file, pstate, graph, held,
                   nops>>

-----------------------------------------------------------------------------
(* The protocol specification *)

ProtocolNext ==
    \/ \E p \in Procs : PostInit(p)
    \/ \E p \in Procs : PostInitRaises(p)
    \/ \E p \in Procs : Initialize(p)
    \/ \E t \in Tasks : \E o \in Calls : Call(t, o)
    \/ \E t \in Tasks : \E a \in UnsupportedAlgorithms : EmbedNodesRaises(t, a)
    \/ \E t \in Tasks : CallIndexDone(t)
    \/ \E t \in Tasks : ConflictLoad(t)
    \/ \E t \in Tasks : ConflictLoadRaises(t)
    \/ \E t \in Tasks : ConflictClear(t)
    \/ \E t \in Tasks : EnterGet(t)
    \/ \E t \in Tasks : AcquireForGet(t)
    \/ \E t \in Tasks : GetGraph(t)
    \/ \E t \in Tasks : GetGraphReload(t)
    \/ \E t \in Tasks : GetGraphRaises(t)
    \/ \E t \in Tasks : Apply(t)
    \/ \E t \in Tasks : EnterWrite(t)
    \/ \E t \in Tasks : AcquireForWrite(t)
    \/ \E t \in Tasks : WriteOpen(t)
    \/ \E t \in Tasks : WriteOpenRaises(t)
    \/ \E t \in Tasks : WriteDone(t)
    \/ \E t \in Tasks : WriteRaises(t)
    \/ \E t \in Tasks : NotifyAll(t)
    \/ \E t \in Tasks : ReturnTrue(t)

Init ==
    /\ ProtocolInit
    /\ StabIdle
    /\ KGIdle

Next == ProtocolNext

Spec == Init /\ [][Next]_vars

-----------------------------------------------------------------------------
(* Steps the properties of the protocol speak about *)

\* Task t's call returns (or raises) in this step.
ReturnStep(t) == pc[t] # "idle" /\ pc'[t] = "idle"

\* Task t's index_done_callback returns (or raises) in this step.
PersistReturnStep(t) == ReturnStep(t) /\ op[t].name = "index_done_callback"

\* Task t leaves _get_graph in this step, by return or by exception.
GetGraphStep(t) == pc[t] = "get_graph" /\ pc'[t] # "get_graph"

\* Task t reads the file in this step: the reload of _get_graph or the one
\* of index_done_callback's conflict path.
LoadStep(t) ==
    \/ GetGraphStep(t) /\ NeedsReload(ProcOf(t))
    \/ pc[t] = "conflict_load" /\ pc'[t] # "conflict_load"

\* Storage p is constructed in this step, which reads the file.
ConstructStep(p) == pstate[p] = "new" /\ pstate'[p] # "new"

\* A write of the file is under way: it was opened and is not complete.
WriteInProgress == \E u \in Tasks : pc[u] = "writing"

\* Task t's write of the file fails in this step.
WriteFailsStep(t) == pc[t] \in {"write_open", "writing"} /\ pc'[t] = "idle"

\* Where a call is once index_done_callback has begun to save.
SavingPcs == {"write_open", "writing", "notify", "return_true"}

-----------------------------------------------------------------------------
(* C1 *)

\* C1 (as stated): an index_done_callback called while the storage's flag is
\* set, in either flag mode, performs no write of the file, returns False,
\* and leaves the storage's flag clear and its graph the one loaded from the
\* file.
C1_ConflictDetection ==
    /\ [](\A t \in Tasks :
            (op[t].name = "index_done_callback" /\ log[t].entered_stale)
                => pc[t] \notin SavingPcs)
    /\ [][\A t \in Tasks :
            (PersistReturnStep(t) /\ log[t].entered_stale)
                => /\ returned' = Returns(t, "False")
                   /\ ~storage_updated'[ProcOf(t)]
                   /\ pc[t] = "conflict_clear"]_vars

-----------------------------------------------------------------------------
(* C2 *)

\* C2 (as stated): a method that enters _get_graph with the storage's flag
\* set after a peer's index_done_callback succeeded replaces the storage's
\* graph by the one loaded from the file (an empty one if there is no
\* file), clears the flag and goes on with that graph; every method
\* computes what it returns on the storage's graph, has_node whether the id
\* is a node of it.
C2_ReloadCoherence ==
    /\ [][\A t \in Tasks :
            (GetGraphStep(t) /\ storage_updated[ProcOf(t)])
                => /\ ~ReadRaises(graphml_file)
                   /\ graph'[ProcOf(t)] = load_nx_graph_or_new(graphml_file)
                   /\ ~storage_updated'[ProcOf(t)]
                   /\ held'[t] = SelfRef
                   /\ pc'[t] = AfterGet(t)]_vars
    /\ [][\A t \in Tasks :
            (pc[t] = "apply" /\ ReturnStep(t))
                => /\ returned' \in
                        {ReturnsValue(t, r) :
                            r \in MethodResults(op[t], graph[ProcOf(t)])}
                   /\ op[t].name = "has_node"
                        => returned' = Returns(t,
                                IF nx_has_node(graph[ProcOf(t)], op[t].args[1])
                                THEN "True" ELSE "False")
                   /\ op[t].name = "get_knowledge_graph"
                        => kg_graph' = graph[ProcOf(t)]]_vars

-----------------------------------------------------------------------------
(* C3 *)

\* C3 (as stated): no load of the file, at construction, in _get_graph or in
\* the conflict path of index_done_callback, happens while a write of the
\* file is under way.
C3_NoLoadDuringWrite ==
    [][((\E t \in Tasks : LoadStep(t)) \/ (\E p \in Procs : ConstructStep(p)))
            => ~WriteInProgress]_vars

-----------------------------------------------------------------------------
(* C4 *)

\* C4 (as stated): when an index_done_callback called with the flag clear
\* returns True, the file is completely written, every storage it notified
\* has its flag set and its own flag is clear.
C4_WriteThenNotify ==
    [][\A t \in Tasks :
        (PersistReturnStep(t) /\ ~log[t].entered_stale
            /\ returned' = Returns(t, "True"))
            => /\ graphml_file'.state = "written"
               /\ \A q \in log[t].notified : storage_updated'[q]
               /\ ~storage_updated'[ProcOf(t)]]_vars

-----------------------------------------------------------------------------
(* C5 *)

\* C5 (as stated): the document a successful index_done_callback leaves in
\* the file is that of the canonical form (_stabilize_graph) of the graph it
\* persists.
C5_CanonicalWrite ==
    [][\A t \in Tasks :
        (pc[t] = "writing" /\ pc'[t] = "notify")
            => graphml_file' = WrittenFile(stabilize_graph(GraphToWrite(t)))]_vars

-----------------------------------------------------------------------------
(* C9 *)

\* C9: when the write of the file fails in index_done_callback, the call
\* returns False (it does not raise), the namespace lock is released, and
\* no storage's flag or graph changes.
C9_WriteFailure ==
    [][\A t \in Tasks :
        WriteFailsStep(t)
            => /\ returned' = Returns(t, "False")
               /\ storage_lock = t
               /\ storage_lock' = NoTask
               /\ storage_updated' = storage_updated
               /\ graph' = graph]_vars

\* A write has failed in single-process mode: the call returned False, the
\* file is left truncated, the lock is free and the storage has its graph.
C9_Witness ==
    \E t \in Tasks :
        /\ ~is_multiprocess
        /\ returned = Returns(t, "False")
        /\ graphml_file.state = "truncated"
        /\ ~WriteInProgress
        /\ storage_lock = NoTask
        /\ nx_number_of_nodes(graph[ProcOf(t)]) > 0

-----------------------------------------------------------------------------
(* C14 *)

\* Where a task is inside an `async with self._storage_lock` block: lines
\* 110-122 of _get_graph and lines 345-358 of index_done_callback.
LockedPcs == {"get_graph", "write_open", "writing", "notify", "return_true"}

\* The methods that change the graph.
MutatingNames == {"upsert_node", "upsert_edge", "delete_node",
                  "remove_nodes", "remove_edges"}

\* C14: the lock is held by a task exactly while the task is inside an
\* `async with` block of _get_graph or index_done_callback, so a task that
\* is in no call does not hold it and at most one task is inside such a
\* block; and every step that leaves _get_graph, by return or by an
\* exception of the load, or leaves index_done_callback's write, by return
\* or by an exception of the write, leaves the lock free.
C14_LockReleased ==
    /\ [](/\ \A t \in Tasks : storage_lock = t <=> pc[t] \in LockedPcs
          /\ Cardinality({t \in Tasks : pc[t] \in LockedPcs}) <= 1
          /\ \A t \in Tasks : pc[t] = "idle" => storage_lock # t)
    /\ [][\A t \in Tasks :
            (GetGraphStep(t) \/ (pc[t] \in LockedPcs /\ ReturnStep(t)))
                => storage_lock = t /\ storage_lock' = NoTask]_vars

\* A method's reload in _get_graph has raised on a file a failed write left
\* truncated (single-process mode, so it was no conflict reload): the flag
\* is still set, the task is in no call and the lock is free.
C14_Witness ==
    \E t \in Tasks :
        /\ ~is_multiprocess
        /\ returned = Returns(t, "raised")
        /\ pc[t] = "idle"
        /\ storage_updated[ProcOf(t)]
        /\ graphml_file.state = "truncated"
        /\ storage_lock = NoTask

-----------------------------------------------------------------------------
(* C15 *)

\* C15 (as stated): a mutating method applies its change to the graph while
\* its task holds the lock, and to the object that is self._graph.
C15_CrudCriticalSection ==
    [][\A t \in Tasks :
          (pc[t] = "apply" /\ ReturnStep(t) /\ op[t].name \in MutatingNames)
              => /\ storage_lock = t
                 /\ held[t].kind = "self"]_vars

-----------------------------------------------------------------------------
(* C17 *)

\* C17 (as stated): index_done_callback opens the file for writing only
\* while the flag of its storage is clear.
C17_CheckAndWriteAtomic ==
    [][\A t \in Tasks :
          (pc[t] = "write_open" /\ pc'[t] = "writing")
              => ~storage_updated[ProcOf(t)]]_vars

-----------------------------------------------------------------------------
(* C18 *)

\* C18 (as stated): the graph a completed write of index_done_callback has
\* written is the object that is self._graph at that moment, and no
\* index_done_callback returns True after a reload of its storage replaced,
\* during the call, a graph with changes that were not saved.
C18_SuccessMeansPersisted ==
    /\ [][\A t \in Tasks :
            (pc[t] = "writing" /\ pc'[t] = "notify")
                => /\ held[t].kind = "self"
                   /\ graphml_file' = WrittenFile(graph[ProcOf(t)])]_vars
    /\ [][\A t \in Tasks :
            (PersistReturnStep(t) /\ returned' = Returns(t, "True"))
                => ~log[t].discarded]_vars

-----------------------------------------------------------------------------
(* C19 *)

\* A write of the file is complete and the flags are not set yet (lines
\* 347-349).
NotifyPending == \E u \in Tasks : pc[u] = "notify"

\* C19 (as stated): a storage that is initialized, runs no call and has its
\* flag clear has loaded or written the file after every write of another
\* storage, once that write's set_all_update_flags has run.
C19_NoLostNotification ==
    \A p \in Procs :
        (/\ pstate[p] = "ready"
         /\ ~storage_updated[p]
         /\ \A t \in Tasks : ProcOf(t) = p => pc[t] = "idle"
         /\ ~NotifyPending)
            => hist[p].current

-----------------------------------------------------------------------------
(* C20: the protocol with its scheduling *)

\* A step of task t that needs no lock to be granted: the event loop runs
\* a coroutine that can run, and a load or a write returns or raises.
Continue(t) ==
    \/ ConflictLoad(t) \/ ConflictLoadRaises(t) \/ ConflictClear(t)
    \/ EnterGet(t)
    \/ GetGraph(t) \/ GetGraphReload(t) \/ GetGraphRaises(t)
    \/ Apply(t)
    \/ EnterWrite(t)
    \/ WriteOpen(t) \/ WriteOpenRaises(t)
    \/ WriteDone(t) \/ WriteRaises(t)
    \/ NotifyAll(t)
    \/ ReturnTrue(t)

\* A suspended task is granted the lock.
Acquire(t) == AcquireForGet(t) \/ AcquireForWrite(t)

\* The calls of the specification with scheduling: a method that changes
\* the graph, queries, and index_done_callback (CallIndexDone).
FairCalls ==
    {[name |-> "has_node", args |-> <<id_a>>],
     [name |-> "upsert_node", args |-> <<id_a, [entity_type |-> "person"]>>],
     [name |-> "get_node", args |-> <<id_a>>],
     [name |-> "get_knowledge_graph", args |-> <<StarText, 1>>]}

FairNext ==
    \/ \E p \in Procs : PostInit(p)
    \/ \E p \in Procs : PostInitRaises(p)
    \/ \E p \in Procs : Initialize(p)
    \/ \E t \in Tasks : \E o \in FairCalls : Call(t, o)
    \/ \E t \in Tasks : CallIndexDone(t)
    \/ \E t \in Tasks : Continue(t)
    \/ \E t \in Tasks : Acquire(t)

\* The event loops run every coroutine that can run, and the lock is fair:
\* a task that waits for it while it is free again and again gets it.
SpecFair ==
    /\ Init
    /\ [][FairNext]_vars
    /\ \A t \in Tasks : WF_vars(Continue(t))
    /\ \A t \in Tasks : SF_vars(Acquire(t))

\* C20: no task takes the lock while it holds it, and every call that was
\* started returns or raises.
C20_EveryCallCompletes ==
    /\ [][\A t \in Tasks :
            (storage_lock # t /\ storage_lock' = t) => storage_lock = NoTask]_vars
    /\ [](\A t \in Tasks :
            pc[t] \in {"enter_get", "wait_get", "enter_write", "wait_write"}
                => storage_lock # t)
    /\ \A t \in Tasks : (pc[t] # "idle") ~> (pc[t] = "idle")

\* An index_done_callback waits for the lock of line 344, which a task of
\* the other storage holds, after it went through _get_graph.
C20_Witness ==
    \E t \in Tasks :
        /\ pc[t] = "wait_write"
        /\ storage_lock \in Tasks \ {t}
        /\ ProcOf(storage_lock) # ProcOf(t)

-----------------------------------------------------------------------------
(* The single-storage specification: one storage, one task, every method
   but index_done_callback on every id of CrudIds *)

CrudNext ==
    \/ PostInit(1)
    \/ Initialize(1)
    \/ \E o \in CrudCalls : Call(1, o)
    \/ \E a \in UnsupportedAlgorithms : EmbedNodesRaises(1, a)
    \/ GetGraph(1)
    \/ Apply(1)

SpecCrud == Init /\ [][CrudNext]_vars

\* C10: in a storage whose flag is clear, _get_graph hands the method the
\* storage's graph as it is; upsert_node(X) leaves X a node of it;
\* delete_node(X) returns without raising and leaves X no node of it, and
\* when X was no node the graph is left as it was; has_node(X) answers
\* whether X is a node and changes nothing.  So has_node(X) is true after
\* upsert_node(X), false after delete_node(X), and a second delete_node(X)
\* changes nothing.
C10_NodeLifecycle ==
    /\ [][\A t \in Tasks :
            (GetGraphStep(t) /\ ~storage_updated[ProcOf(t)])
                => /\ graph' = graph
                   /\ held'[t] = SelfRef
                   /\ pc'[t] = "apply"]_vars
    /\ [][\A t \in Tasks :
            (pc[t] = "apply" /\ ReturnStep(t))
                => LET G == graph[ProcOf(t)]
                       H == graph'[ProcOf(t)]
                       X == op[t].args[1]
                   IN  /\ op[t].name = "upsert_node"
                            => /\ nx_has_node(H, X)
                               /\ returned' = Returns(t, "None")
                       /\ op[t].name = "delete_node"
                            => /\ ~nx_has_node(H, X)
                               /\ returned' = Returns(t, "None")
                               /\ ~nx_has_node(G, X) => H = G
                       /\ op[t].name = "has_node"
                            => /\ H = G
                               /\ returned' = Returns(t,
                                    IF nx_has_node(G, X) THEN "True"
                                    ELSE "False")]_vars

\* A delete_node(X) is about to run on a graph with edges in which X is no
\* node: the second delete of the lifecycle.
C10_Witness ==
    \E t \in Tasks :
        /\ pc[t] = "apply"
        /\ op[t].name = "delete_node"
        /\ ~storage_updated[ProcOf(t)]
        /\ ~nx_has_node(graph[ProcOf(t)], op[t].args[1])
        /\ Len(nx_edges(graph[ProcOf(t)])) > 0

-----------------------------------------------------------------------------
(* C16 *)

\* Both ends of every edge of G are nodes of G: in the adjacency, in the
\* edge attributes and in G.edges.
NoDanglingEdges(G) ==
    LET nodes == SeqToSet(G.node)
        es == nx_edges(G)
    IN  /\ DOMAIN G.adj = nodes
        /\ \A n \in nodes : SeqToSet(G.adj[n]) \subseteq nodes
        /\ \A k \in DOMAIN G.eattr : k[1] \in nodes /\ k[2] \in nodes
        /\ \A j \in 1..Len(es) : es[j][1] \in nodes /\ es[j][2] \in nodes

\* The edges of G at the node n.
EdgesAtNode(G, n) == {k \in DOMAIN G.eattr : k[1] = n \/ k[2] = n}

\* C16: from the empty graph, after every sequence of upsert_node,
\* upsert_edge, delete_node, remove_nodes and remove_edges both ends of
\* every edge of the storage's graph are nodes of it: upsert_edge makes
\* the ends it does not find, delete_node and remove_nodes take the edges
\* at the nodes they remove, remove_edges removes no node.
C16_NoDanglingEdges ==
    /\ [](\A p \in Procs : NoDanglingEdges(graph[p]))
    /\ [][\A t \in Tasks :
            (pc[t] = "apply" /\ ReturnStep(t))
                => LET G == graph[ProcOf(t)]
                       H == graph'[ProcOf(t)]
                   IN  /\ op[t].name = "upsert_edge"
                            => /\ nx_has_node(H, op[t].args[1])
                               /\ nx_has_node(H, op[t].args[2])
                               /\ nx_has_edge(H, op[t].args[1], op[t].args[2])
                       /\ op[t].name = "delete_node"
                            => /\ ~nx_has_node(H, op[t].args[1])
                               /\ EdgesAtNode(H, op[t].args[1]) = {}
                       /\ op[t].name = "remove_nodes"
                            => \A n \in SeqToSet(op[t].args[1]) :
                                  /\ ~nx_has_node(H, n)
                                  /\ EdgesAtNode(H, n) = {}
                       /\ op[t].name = "remove_edges"
                            => /\ H.node = G.node
                               /\ \A e \in SeqToSet(op[t].args[1]) :
                                     ~nx_has_edge(H, e[1], e[2])]_vars

\* A delete_node(X) is about to run on a graph in which X has an edge to
\* another node and a loop.
C16_Witness ==
    \E t \in Tasks :
        /\ pc[t] = "apply"
        /\ op[t].name = "delete_node"
        /\ LET G == graph[ProcOf(t)]
               X == op[t].args[1]
           IN  /\ nx_has_node(G, X)
               /\ nx_has_edge(G, X, X)
               /\ \E m \in SeqToSet(G.node) \ {X} : nx_has_edge(G, m, X)

-----------------------------------------------------------------------------
(* The specification of _stabilize_graph: a graph is built node by node and
   edge by edge, in any order, and handed to _stabilize_graph *)

MaxStabNodes == 4

MaxStabEdges == 2

\* Ids with and without the text " -> ": the edges a - "b -> c" and
\* "a -> b" - c have the same key "a -> b -> c".
StabIds == {id_a, id_c, id_a_arrow_b, id_b_arrow_c}

StabNodeData == [entity_type |-> "person"]

StabEdgeData == [weight |-> "1"]

StabInit ==
    /\ ProtocolInit
    /\ ~is_multiprocess
    /\ stab_graph \in {nx_Graph, nx_DiGraph}
    /\ stab_result = NoStabResult
    /\ KGIdle

StabAddNode(n) ==
    /\ ~nx_has_node(stab_graph, n)
    /\ nx_number_of_nodes(stab_graph) < MaxStabNodes
    /\ stab_graph' = nx_add_node(stab_graph, n, StabNodeData)
    /\ stab_result' = NoStabResult
    /\ UNCHANGED <<protocolVars, kgVars>>

StabAddEdge(u, v) ==
    /\ ~nx_has_edge(stab_graph, u, v)
    /\ Len(nx_edges(stab_graph)) < MaxStabEdges
    /\ nx_number_of_nodes(nx_add_edge(stab_graph, u, v, StabEdgeData))
            <= MaxStabNodes
    /\ stab_graph' = nx_add_edge(stab_graph, u, v, StabEdgeData)
    /\ stab_result' = NoStabResult
    /\ UNCHANGED <<protocolVars, kgVars>>

\* _stabilize_graph(graph) is called.
Stabilize ==
    /\ ~stab_result.called
    /\ stab_result' = [called |-> TRUE, graph |-> stabilize_graph(stab_graph)]
    /\ UNCHANGED <<stab_graph, protocolVars, kgVars>>

StabNext ==
    \/ \E n \in StabIds : StabAddNode(n)
    \/ \E u \in StabIds : \E v \in StabIds : StabAddEdge(u, v)
    \/ Stabilize

SpecStab == StabInit /\ [][StabNext]_vars

\* C6: the graph _stabilize_graph returns is a fixed point of it as far as
\* the written file goes: stabilizing it again gives the same directedness,
\* the same node sequence with the same attributes, and the same edge
\* sequence with the same orientations and attributes.
C6_Idempotent ==
    stab_result.called
        => GraphMLOf(stabilize_graph(stab_result.graph))
               = GraphMLOf(stab_result.graph)

\* _stabilize_graph was called on a graph with two edges or more whose node
\* or edge sequence it had to change.
C6_Witness ==
    /\ stab_result.called
    /\ Len(nx_edges(stab_graph)) >= 2
    /\ GraphMLOf(stab_result.graph) # GraphMLOf(stab_graph)

\* The permutations of 1..n.
Perms(n) == {f \in [1..n -> 1..n] : \A i, j \in 1..n : f[i] = f[j] => i = j}

\* A graph with G's nodes, edges and attributes, its nodes inserted in the
\* order pn and then its edges in the order pe.
Rebuild(G, pn, pe) ==
    LET nodes == nx_nodes_data(G)
        edges == nx_edges_data(G)
    IN  nx_add_edges_from(
            nx_add_nodes_from(IF G.directed THEN nx_DiGraph ELSE nx_Graph,
                              [i \in 1..Len(nodes) |-> nodes[pn[i]]]),
            [j \in 1..Len(edges) |-> edges[pe[j]]])

Rebuilds(G) ==
    {Rebuild(G, pn, pe) : pn \in Perms(nx_number_of_nodes(G)),
                          pe \in Perms(Len(nx_edges(G)))}

\* Two edges of G have the same key.
KeysCollide(G) ==
    LET es == nx_edges(G)
    IN  \E i, j \in 1..Len(es) :
            /\ i # j
            /\ get_edge_key(es[i][1], es[i][2]) = get_edge_key(es[j][1], es[j][2])

\* The nodes of G were inserted in ascending order of id.
NodesAscending(G) ==
    \A i \in 1..(Len(G.node) - 1) : StrLt(G.node[i], G.node[i + 1])

\* C7: _stabilize_graph returns the same node sequence and the same edge
\* sequence for every graph that has the nodes, edges and attributes of the
\* one it was given, whatever the order they were inserted in (and so
\* whatever end an undirected edge is reported from), also when ids contain
\* " -> ".  The graphs compared with all their rebuilds are those whose
\* nodes were inserted in ascending order: every graph is a rebuild of one.
C7_Deterministic ==
    (stab_result.called /\ NodesAscending(stab_graph))
        => \A H \in Rebuilds(stab_graph) :
              GraphMLOf(stabilize_graph(H)) = GraphMLOf(stab_result.graph)

\* _stabilize_graph was called on a graph with ids that contain " -> ", two
\* edges of the same key, and another insertion order that reports its
\* nodes or edges differently.
C7_Witness ==
    /\ stab_result.called
    /\ NodesAscending(stab_graph)
    /\ KeysCollide(stab_graph)
    /\ \E H \in Rebuilds(stab_graph) : GraphMLOf(H) # GraphMLOf(stab_graph)

-----------------------------------------------------------------------------
(* The specification of get_knowledge_graph: it is called once, through
   _get_graph, on a storage whose graph is one of a family of graphs around
   max_graph_nodes nodes and of small graphs, or whose flag is set *)

\* The large graphs have max_graph_nodes to max_graph_nodes + KGExtra nodes.
KGExtra == 2

KGSizes(extra) == max_graph_nodes..(max_graph_nodes + extra)

\* The i-th id of a large graph, a string of one character.
KGNode(i) == <<1000 + i>>

KGNodeData == [entity_type |-> "person"]

KGEdgeData == [weight |-> "1"]

\* The undirected graph whose nodes were inserted in the order `order` and
\* then its edges, all different and none a loop, in the order `edges`.
GraphOf(order, edges) ==
    LET ends == [j \in 1..Len(edges) |->
                    IF StrGt(edges[j][1], edges[j][2])
                    THEN <<edges[j][2], edges[j][1]>> ELSE edges[j]]
        at(n) == SelectSeq(edges, LAMBDA e : e[1] = n \/ e[2] = n)
    IN  [directed |-> FALSE,
         node |-> order,
         nattr |-> [n \in SeqToSet(order) |-> KGNodeData],
         adj |-> [n \in SeqToSet(order) |->
                    [j \in 1..Len(at(n)) |->
                        IF at(n)[j][1] = n THEN at(n)[j][2] ELSE at(n)[j][1]]],
         eattr |-> [k \in SeqToSet(ends) |-> KGEdgeData]]

\* The nodes 1..n in ascending or descending order.
KGOrder(n, descending) ==
    [i \in 1..n |-> KGNode(IF descending THEN n + 1 - i ELSE i)]

\* A star whose two last leaves are joined as well: node 1 is joined to
\* every other node, in the order of the nodes, and then the last two of
\* them to each other.
ChordEdges(order) ==
    LET leaves == SelectSeq(order, LAMBDA m : m # KGNode(1))
    IN  Append([j \in 1..Len(leaves) |-> <<KGNode(1), leaves[j]>>],
               <<leaves[Len(leaves) - 1], leaves[Len(leaves)]>>)

\* A ring: every node is joined to the next of the order, the last to the
\* first.
RingEdges(order) ==
    [j \in 1..Len(order) |-> <<order[j], order[(j % Len(order)) + 1]>>]

KGLargeGraphs(sizes) ==
    UNION {{GraphOf(KGOrder(n, FALSE), ChordEdges(KGOrder(n, FALSE))),
            GraphOf(KGOrder(n, TRUE), ChordEdges(KGOrder(n, TRUE))),
            GraphOf(KGOrder(n, FALSE), RingEdges(KGOrder(n, FALSE)))} :
                n \in sizes}

\* Small graphs as the storage's methods build them.
KGSmallGraphs ==
    {upsert_edge(upsert_edge(upsert_node(nx_Graph, id_b, KGNodeData),
                             id_a_arrow_b, id_a, KGEdgeData),
                 id_a, id_c, KGEdgeData),
     upsert_edge(upsert_edge(upsert_edge(nx_Graph, id_c, id_b, KGEdgeData),
                             id_b, id_a, KGEdgeData),
                 id_b_arrow_c, id_b_arrow_c, KGEdgeData),
     nx_Graph,
     upsert_edge(upsert_edge(upsert_edge(nx_Graph, id_a, id_b, KGEdgeData),
                             id_b, id_c, KGEdgeData),
                 id_c, id_a_arrow_b, KGEdgeData),
     upsert_edge(upsert_edge(upsert_edge(upsert_edge(
                    upsert_node(nx_Graph, id_a_dash_b, KGNodeData),
                    id_a_dash_b, id_c, KGEdgeData),
                    id_a_dash_b, id_a, KGEdgeData),
                    id_a_dash_b, id_b_dash_c, KGEdgeData),
                 id_a, id_b_dash_c, KGEdgeData)}

KGGraphs(sizes) == KGLargeGraphs(sizes) \cup KGSmallGraphs

KGLabels == {StarText, KGNode(1), KGNode(max_graph_nodes), id_a, id_b}

KGDepths == {0, 1}

\* The graphs of a storage whose flag is set, and the graphs the file holds
\* then.
KGStaleGraphs ==
    {nx_Graph, upsert_edge(nx_Graph, id_a, id_c, KGEdgeData)}

KGFileGraphs ==
    {upsert_edge(nx_Graph, id_b, id_a, KGEdgeData),
     upsert_edge(upsert_edge(upsert_edge(nx_Graph, id_a, id_b, KGEdgeData),
                             id_b, id_c, KGEdgeData),
                 id_c, id_a_arrow_b, KGEdgeData)}

\* Storage 1 is ready and holds a graph its methods built, with its flag
\* clear; or another storage has written the file since, well or not, and
\* its flag is set.
KGInit ==
    /\ storage_lock = NoTask
    /\ pstate = [p \in Procs |-> "ready"]
    /\ pc = [t \in Tasks |-> "idle"]
    /\ op = [t \in Tasks |-> NoCall]
    /\ held = [t \in Tasks |-> NoRef]
    /\ returned = NoReturn
    /\ log = [t \in Tasks |-> NoLog]
    /\ nops = 0
    /\ \/ /\ is_multiprocess = FALSE
          /\ registered = [p \in Procs |-> TRUE]
          /\ graphml_file = AbsentFile
          /\ storage_updated = [p \in Procs |-> FALSE]
          /\ \E G \in KGGraphs(KGSizes(KGExtra)) :
                graph = [p \in Procs |-> IF p = 1 THEN G ELSE nx_Graph]
          /\ hist = [p \in Procs |-> [dirty |-> p = 1, current |-> TRUE]]
       \* The peer persisted its graph F: it set the flag of storage 1 and
       \* then reset its own (line 354), which in single-process mode
       \* rebinds the attribute, so that the peer is registered no longer.
       \* The file holds F, or nothing after a later write that failed.
       \/ /\ is_multiprocess \in BOOLEAN
          /\ registered = [p \in Procs |-> p = 1 \/ is_multiprocess]
          /\ storage_updated = [p \in Procs |-> p = 1]
          /\ \E G \in KGStaleGraphs : \E F \in KGFileGraphs :
                /\ graph = [p \in Procs |-> IF p = 1 THEN G ELSE F]
                /\ graphml_file \in {WrittenFile(F), TruncatedFile}
          /\ hist = [p \in Procs |-> [dirty |-> FALSE, current |-> p # 1]]
    /\ StabIdle
    /\ KGIdle

\* One get_knowledge_graph(node_label, max_depth) is called on storage 1.
KGQuery(t, node_label, max_depth) ==
    /\ ~kg_call.called
    /\ Call(t, [name |-> "get_knowledge_graph",
                args |-> <<node_label, max_depth>>])

KGNext ==
    \/ \E node_label \in KGLabels : \E max_depth \in KGDepths :
          KGQuery(1, node_label, max_depth)
    \/ GetGraph(1)
    \/ GetGraphReload(1)
    \/ GetGraphRaises(1)
    \/ Apply(1)

SpecKG == KGInit /\ [][KGNext]_vars

\* The ids of the nodes get_knowledge_graph returned.
ReturnedIds == {kg_result.nodes[i].id : i \in 1..Len(kg_result.nodes)}

\* The subgraph the last call cut its result from.
CalledCandidate ==
    Candidate(kg_graph, kg_call.node_label, kg_call.max_depth,
              kg_call.ego_order)

\* The last call found a subgraph: its label is "*" or matches a node.
CalledFound ==
    /\ kg_call.called
    /\ \/ kg_call.node_label = StarText
       \/ nodes_to_explore(kg_graph, kg_call.node_label) # <<>>

\* In the subgraph H, node k goes before node d: its degree is higher, or
\* the same and it is met earlier in H's iteration.
GoesBefore(H, pos, k, d) ==
    \/ nx_degree(H, k) > nx_degree(H, d)
    \/ nx_degree(H, k) = nx_degree(H, d) /\ pos[k] < pos[d]

\* C8: get_knowledge_graph returns at most max_graph_nodes nodes; cut from
\* a subgraph of more nodes, it returns exactly max_graph_nodes of them,
\* each of a higher degree in the subgraph than every node left out, or of
\* the same degree and met earlier in the subgraph's iteration; and every
\* edge it returns has both ends among the returned nodes.
C8_Truncation ==
    LET ids == ReturnedIds
    IN  /\ Len(kg_result.nodes) <= max_graph_nodes
        /\ \A j \in 1..Len(kg_result.edges) :
              /\ kg_result.edges[j].source \in ids
              /\ kg_result.edges[j].target \in ids
        /\ CalledFound =>
              LET H == CalledCandidate
                  pos == PosIn(H.node)
                  dropped == SeqToSet(H.node) \ ids
              IN  /\ ids \subseteq SeqToSet(H.node)
                  /\ Cardinality(ids) = Len(kg_result.nodes)
                  /\ nx_number_of_nodes(H) > max_graph_nodes
                        => /\ Len(kg_result.nodes) = max_graph_nodes
                           /\ \A d \in dropped : \A k \in ids :
                                 GoesBefore(H, pos, k, d)

\* A call cut its result from a subgraph of more than max_graph_nodes
\* nodes: a node left out has the degree of a returned node met earlier, a
\* returned node of a higher degree is met later than a node left out, and
\* the subgraph has an edge at a node left out.
C8_Witness ==
    /\ CalledFound
    /\ LET H == CalledCandidate
           pos == PosIn(H.node)
           ids == ReturnedIds
           dropped == SeqToSet(H.node) \ ids
       IN  /\ nx_number_of_nodes(H) > max_graph_nodes
           /\ \E d \in dropped : \E k \in ids :
                 nx_degree(H, k) = nx_degree(H, d)
           /\ \E d \in dropped : \E k \in ids :
                 nx_degree(H, k) > nx_degree(H, d) /\ pos[k] > pos[d]
           /\ \E d \in dropped : nx_degree(H, d) > 0
           /\ Len(kg_result.edges) > 0

-----------------------------------------------------------------------------
(* C11 *)

\* The nodes of the undirected graph G at edge-distance at most k of n.
RECURSIVE WithinDistance(_, _, _)
WithinDistance(G, n, k) ==
    IF k = 0 THEN {n}
    ELSE LET W == WithinDistance(G, n, k - 1)
         IN  W \cup {m \in SeqToSet(G.node) :
                        \E w \in W : nx_has_edge(G, w, m)}

\* The first node of G, in G's iteration order, whose id contains the label.
FirstMatch(G, node_label) ==
    G.node[CHOOSE i \in 1..Len(G.node) :
              /\ StrContains(G.node[i], node_label)
              /\ \A j \in 1..(i - 1) : ~StrContains(G.node[j], node_label)]

\* The last call had a label other than "*" that a node's id contains.
CalledEgo ==
    /\ kg_call.called
    /\ kg_call.node_label # StarText
    /\ \E i \in 1..Len(kg_graph.node) :
          StrContains(kg_graph.node[i], kg_call.node_label)

\* The edges of G with both ends in the set S.
EdgesWithin(G, S) == {k \in DOMAIN G.eattr : k[1] \in S /\ k[2] \in S}

\* C11 (as stated): a call with a label other than "*" that some node id
\* contains, whose neighbourhood has at most max_graph_nodes nodes, returns
\* each node within max_depth edges of the first matching node once and no
\* other node, and each edge of the graph between two of those nodes once
\* and no other edge.
C11_EgoNeighbourhood ==
    CalledEgo =>
        LET ball == WithinDistance(kg_graph,
                        FirstMatch(kg_graph, kg_call.node_label),
                        kg_call.max_depth)
            within == EdgesWithin(kg_graph, ball)
            edges == kg_result.edges
        IN  Cardinality(ball) <= max_graph_nodes =>
                /\ ReturnedIds = ball
                /\ Len(kg_result.nodes) = Cardinality(ball)
                /\ {EdgeKey(kg_graph, edges[j].source, edges[j].target) :
                        j \in 1..Len(edges)} = within
                /\ Len(edges) = Cardinality(within)

-----------------------------------------------------------------------------
(* C12 *)

\* get_knowledge_graph(node_label) has nothing to return on the graph G: the
\* label is "*" and G has no node, or it is another label and no id of G
\* contains it.
NothingToReturn(G, node_label) ==
    \/ node_label = StarText /\ nx_number_of_nodes(G) = 0
    \/ /\ node_label # StarText
       /\ \A i \in 1..Len(G.node) : ~StrContains(G.node[i], node_label)

\* C12 (as stated): a get_knowledge_graph with the label "*" on a storage
\* whose graph has no node, or with another label that no node id of its
\* graph contains, raises no exception: it returns a KnowledgeGraph with no
\* node and no edge and leaves the storage's graph as it was.
C12_EmptyResult ==
    [][\A t \in Tasks :
        (/\ ReturnStep(t)
         /\ op[t].name = "get_knowledge_graph"
         /\ NothingToReturn(graph[ProcOf(t)], op[t].args[1]))
            => /\ returned' = Returns(t, "KnowledgeGraph")
               /\ kg_result' = KnowledgeGraph
               /\ graph' = graph]_vars

-----------------------------------------------------------------------------
(* C13 *)

\* C13 (as stated): every returned node has its id among its labels and,
\* with an entity_type attribute, the attribute's value as well; its
\* properties are the node's attributes.
C13_NodeLabels ==
    kg_call.called =>
        \A i \in 1..Len(kg_result.nodes) :
            LET node == kg_result.nodes[i]
            IN  /\ nx_has_node(kg_graph, node.id)
                /\ InSeq(node.id, node.labels)
                /\ node.properties = kg_graph.nattr[node.id]
                /\ "entity_type" \in DOMAIN node.properties
                      => InSeq(node.properties.entity_type, node.labels)

=============================================================================
